---- MODULE Spec2Model ----
(***************************************************************************)
(* The LinkedIn post generator of 12-loop-agent/linkedin_post_agent:       *)
(* a sequential pipeline (InitialPostGenerator, then PostRefinementLoop)   *)
(* whose loop agent runs its two sub-agents, PostReviewer and PostRefiner, *)
(* in order, once per iteration, until the reviewer calls exit_loop        *)
(* (Actions.Escalate = true) or MaxIterations iterations have completed.   *)
(*                                                                         *)
(* The three agents are language-model calls: what they answer is a        *)
(* nondeterministic choice (the post text, the feedback text, whether and  *)
(* with which text count_characters is called, whether exit_loop is        *)
(* called).  The control flow around them is the loop and the sequence     *)
(* configured in main.go.                                                  *)
(***************************************************************************)
EXTENDS Integers, Sequences, FiniteSets, TLC

\* ---------------------------------------------------------------- constants

\* main.go: loopagent.Config{MaxIterations: 8}
MAX_ITERATIONS == 8

\* The bound the documentation states: README "Max Iterations ... (10)",
\* main.go "Refinement Loop created (max 10 iterations)".
DOC_MAX_ITERATIONS == 10

\* count_characters: const MIN_LENGTH, MAX_LENGTH
MIN_LENGTH == 1000
MAX_LENGTH == 1500

\* ------------------------------------------------------------------- bounds

\* Number of distinct post texts a generator or refiner may answer with.
MaxPost == 2

\* Largest MaxIterations of the loop configurations explored by SpecN.
MaxN == 3

\* Tool calls made to the customer service tools.
MaxShopCalls == 4

\* Sessions created through the customer service's session service.
MaxSessions == 3

\* Reminders kept by the memory agent, and starts of its program.
MaxReminders == 2

MaxStarts == 2

\* Agent requests made on one session of the callbacks example.
MaxRequests == 4

\* Model requests of the content filter agent, and parts of a message.
MaxModelRequests == 1

MaxParts == 2

\* ------------------------------------------------------------------- values

\* The session state keys the workflow uses (README "State Management").
Keys == {"current_post", "review_feedback", "review_status"}

\* A state key no agent or tool has written yet.
Unset == "unset"

AllPosts == <<"post A", "post B", "post C", "post D">>

\* Texts a generator or refiner may answer with.
Posts == {AllPosts[i] : i \in 1..MaxPost}

ExitMessage == "Post meets all requirements. Exiting the refinement loop."

\* Texts the reviewer may answer with.
ReviewTexts == {"too short", "add a call-to-action", ExitMessage}

\* Lengths of the texts the reviewer may hand to count_characters.
Lengths == {0, MIN_LENGTH - 1, MIN_LENGTH, MAX_LENGTH, MAX_LENGTH + 1}

Reasons == {"QualityMet", "MaxIterationsReached", "Aborted"}

VARIABLES
    pc,              \* position of the pipeline: "generate", "review", "refine", "done"
    maxIterations,   \* loopagent.Config.MaxIterations
    iteration,       \* completed loop iterations
    state,           \* the session state: key -> text
    escalate,        \* Actions.Escalate of the reviewer's last turn
    genCalls,        \* runs of InitialPostGenerator
    evalCalls,       \* runs of PostReviewer
    refineCalls,     \* runs of PostRefiner
    verdicts,        \* per reviewer run: "Pass" (exit_loop called) or "Fail"
    refinerOutputs,  \* per refiner run: the post it answered with
    seed,            \* the post InitialPostGenerator answered with
    lastEvaluated,   \* current_post as the last reviewer run saw it
    lastFeedback,    \* review_feedback as the last reviewer run left it
    reason           \* why the loop returned ("Running" while it has not)

vars == <<pc, maxIterations, iteration, state, escalate, genCalls, evalCalls,
          refineCalls, verdicts, refinerOutputs, seed, lastEvaluated,
          lastFeedback, reason>>

\* 11-parallel-agent/system_monitor_agent
VARIABLES
    monPc,           \* per information agent: "ready", "running", "done"
    synthPc,         \* SystemReportSynthesizer: "ready", "running", "done"
    monState,        \* the session state: key -> text
    synthSaw         \* the three reports as the synthesizer read them at its start

monVars == <<monPc, synthPc, monState, synthSaw>>

\* 8-stateful-multi-agent/customer_service_agent
VARIABLES
    shopPc,          \* "idle" between user messages, "running" during an agent run
    shopState,       \* purchased_courses and interaction_history, as Go values
    shopClock,       \* time.Now(), in ticks
    shopCalls,       \* tool calls made so far
    shopLast         \* the last tool call: tool, status, state before and after

shopVars == <<shopPc, shopState, shopClock, shopCalls, shopLast>>

\* 6-persistent-storage/memory_agent
VARIABLES
    memDb,           \* the sessions of the user in the database, oldest first
    memPc,           \* "stopped", "idle" (waiting for input) or "running"
    memSession,      \* the session the program works on (0 when stopped)
    memState,        \* that session's state as the running agent holds it
    memStarts,       \* times the program was started
    memAtStart,      \* the state the program saw when it last started
    memAtExit,       \* the state stored when the program last stopped
    memLast          \* the last tool call and what it returned

memVars == <<memDb, memPc, memSession, memState, memStarts, memAtStart,
             memAtExit, memLast>>

\* 9-callbacks/before_after_agent
VARIABLES
    cbPc,            \* "idle", "agent" (before callback done) or "after"
    cbState,         \* the session state: key -> Go value
    cbClock,         \* time.Now(), in ticks
    cbRequests,      \* agent requests received on the session
    cbLog            \* what the callbacks of the last request printed and saw

cbVars == <<cbPc, cbState, cbClock, cbRequests, cbLog>>

\* 9-callbacks: content_filter_agent (model callbacks)
VARIABLES
    mcPc,            \* "idle", "model" (request approved), "after", "done"
    mcState,         \* session state: last_user_message, model_start_time
    mcRequests,      \* model requests made so far
    mcLast,          \* the request beforeModelCallback last saw, and what it did
    mcModelCalls,    \* times the model was called
    mcResponse,      \* the model's response: error flag and text parts
    mcRemaining,     \* entries of the replacement table not yet visited
    mcText,          \* modifiedText
    mcModified,      \* modified
    mcDelivered      \* text parts of the response delivered to the agent

mcVars == <<mcPc, mcState, mcRequests, mcLast, mcModelCalls, mcResponse,
            mcRemaining, mcText, mcModified, mcDelivered>>

\* 9-callbacks: tool_callback_agent (tool callbacks)
VARIABLES
    tcPc,            \* "idle", "tool" (call let through), "after", "done"
    tcCall,          \* the arguments the model called get_capital_city with
    tcArgs,          \* the arguments after beforeToolCallback
    tcExecuted,      \* whether getCapitalCity ran for this call, and on what
    tcResult         \* the response map: of the tool or a callback's

tcVars == <<tcPc, tcCall, tcArgs, tcExecuted, tcResult>>

\* 12-loop-agent: the count_characters tool called on its own
VARIABLES
    ccState,         \* the session state the tool is called on
    ccLast,          \* the last count_characters call: length, result, state left
    ccPrev           \* the call just before it, if nothing happened in between

ccVars == <<ccState, ccLast, ccPrev>>

\* 8-stateful-multi-agent: the session service with defaults
VARIABLES
    ssInitialState,  \* the map main hands to sessionServiceWithDefaults
    ssSessions,      \* the states of the sessions created so far, in the database
    ssLastCreate     \* the last create request and the state it was forwarded with

ssVars == <<ssInitialState, ssSessions, ssLastCreate>>

\* The variables of the programs other than the LinkedIn post generator.
outsideLoop == <<monVars, shopVars, memVars, cbVars, mcVars, tcVars, ccVars, ssVars>>

\* ----------------------------------------------------------------- OutputKey

\* llmagent.Config.OutputKey of the three agents.
GeneratorOutputKey_Feedback == "review_feedback"

GeneratorOutputKey == "current_post"

ReviewerOutputKey_Post == "current_post"

ReviewerOutputKey == "review_feedback"

RefinerOutputKey_Feedback == "review_feedback"

RefinerOutputKey == "current_post"

\* An agent's answer is saved in the session state under its OutputKey.
SaveOutput(st, key, text) == [st EXCEPT ![key] = text]

\* ------------------------------------------------------------ count_characters

CharacterCounter_Exclusive(n) ==
    IF n <= MIN_LENGTH
    THEN [result |-> "fail", char_count |-> n,
          chars_needed |-> MIN_LENGTH - n, chars_to_remove |-> 0]
    ELSE IF n >= MAX_LENGTH
    THEN [result |-> "fail", char_count |-> n,
          chars_needed |-> 0, chars_to_remove |-> n - MAX_LENGTH]
    ELSE [result |-> "pass", char_count |-> n,
          chars_needed |-> 0, chars_to_remove |-> 0]

\* The result record of count_characters for a text of n characters.
CharacterCounter(n) ==
    IF n < MIN_LENGTH
    THEN [result |-> "fail", char_count |-> n,
          chars_needed |-> MIN_LENGTH - n, chars_to_remove |-> 0]
    ELSE IF n > MAX_LENGTH
    THEN [result |-> "fail", char_count |-> n,
          chars_needed |-> 0, chars_to_remove |-> n - MAX_LENGTH]
    ELSE [result |-> "pass", char_count |-> n,
          chars_needed |-> 0, chars_to_remove |-> 0]

\* The message of the result: its wording and the numbers put into it.
CharacterCounterMessage(n) ==
    IF n < MIN_LENGTH
    THEN <<"Post is too short. Add %d more characters to reach minimum length of %d.",
           MIN_LENGTH - n, MIN_LENGTH>>
    ELSE IF n > MAX_LENGTH
    THEN <<"Post is too long. Remove %d characters to meet maximum length of %d.",
           n - MAX_LENGTH, MAX_LENGTH>>
    ELSE <<"Post length is good (%d characters).", n, n>>

CountCharacters_Toggle(st, n) ==
    [st EXCEPT !["review_status"] =
         IF st["review_status"] = "fail" THEN "pass" ELSE "fail"]

\* count_characters also records its result: ctx.State().Set("review_status", ...)
CountCharacters(st, n) == [st EXCEPT !["review_status"] = CharacterCounter(n).result]

\* ------------------------------------------------------------------ exit_loop

\* exit_loop sets ctx.Actions().Escalate = true; a turn without it leaves false.
ExitLoop(called) == called

\* ------------------------------------------------------------------ the loop

AfterReviewer_NoReturn(esc) == "refine"

AfterReviewer_AlwaysReturn(esc) == "done"

\* After the reviewer's turn the loop returns when the turn escalated;
\* otherwise the next sub-agent, the refiner, runs.
AfterReviewer(esc) == IF esc THEN "done" ELSE "refine"

LoopBoundReached_OffByOne(count, max) == max > 0 /\ count = max + 1

LoopBoundReached_Early(count, max) == max > 0 /\ count >= max - 1

\* After a whole iteration the loop returns when MaxIterations iterations
\* have completed (MaxIterations = 0 means no bound).
LoopBoundReached(count, max) == max > 0 /\ count = max

AfterRefiner_RefineAgain(count, max) ==
    IF LoopBoundReached(count, max) THEN "done" ELSE "refine"

AfterRefiner(count, max) == IF LoopBoundReached(count, max) THEN "done" ELSE "review"

\* ------------------------------------------------------------------- actions

\* InitialPostGenerator: its answer becomes current_post.
Generate ==
    /\ pc = "generate"
    /\ \E p \in Posts :
          /\ state' = SaveOutput(state, GeneratorOutputKey, p)
          /\ seed' = p
    /\ genCalls' = genCalls + 1
    /\ pc' = "review"
    /\ UNCHANGED <<maxIterations, iteration, escalate, evalCalls, refineCalls,
                   verdicts, refinerOutputs, lastEvaluated, lastFeedback, reason>>
    /\ UNCHANGED outsideLoop

\* PostReviewer: may call count_characters, may call exit_loop, answers with a
\* text saved under review_feedback.  A turn that escalates may end the loop
\* before the answer text is produced.
Review ==
    /\ pc = "review"
    /\ \E exit \in BOOLEAN, out \in ReviewTexts, wrote \in BOOLEAN,
          counted \in BOOLEAN, n \in Lengths :
          LET counted_state == IF counted THEN CountCharacters(state, n) ELSE state
          IN  /\ escalate' = ExitLoop(exit)
              /\ state' = IF exit /\ ~wrote
                          THEN counted_state
                          ELSE SaveOutput(counted_state, ReviewerOutputKey, out)
              /\ verdicts' = Append(verdicts, IF exit THEN "Pass" ELSE "Fail")
    /\ evalCalls' = evalCalls + 1
    /\ lastEvaluated' = state["current_post"]
    /\ lastFeedback' = state'["review_feedback"]
    /\ pc' = AfterReviewer(escalate')
    /\ reason' = IF pc' = "done" THEN "QualityMet" ELSE reason
    /\ UNCHANGED <<maxIterations, iteration, genCalls, refineCalls,
                   refinerOutputs, seed>>
    /\ UNCHANGED outsideLoop

\* PostRefiner: its answer overwrites current_post; it has no tools, so it
\* never escalates.  It is the last sub-agent: the iteration completes with it.
Refine ==
    /\ pc = "refine"
    /\ \E p \in Posts :
          /\ state' = SaveOutput(state, RefinerOutputKey, p)
          /\ refinerOutputs' = Append(refinerOutputs, p)
    /\ refineCalls' = refineCalls + 1
    /\ escalate' = FALSE
    /\ iteration' = iteration + 1
    /\ pc' = AfterRefiner(iteration', maxIterations)
    /\ reason' = IF pc' = "done" THEN "MaxIterationsReached" ELSE reason
    /\ UNCHANGED <<maxIterations, genCalls, evalCalls, verdicts, seed,
                   lastEvaluated, lastFeedback>>
    /\ UNCHANGED outsideLoop

InitRun ==
    /\ pc = "generate"
    /\ iteration = 0
    /\ state = [k \in Keys |-> Unset]
    /\ escalate = FALSE
    /\ genCalls = 0
    /\ evalCalls = 0
    /\ refineCalls = 0
    /\ verdicts = <<>>
    /\ refinerOutputs = <<>>
    /\ seed = Unset
    /\ lastEvaluated = Unset
    /\ lastFeedback = Unset
    /\ reason = "Running"

\* ------------------------------------------------------- the system monitor

\* The parallel information gatherers (main.go: SubAgents of
\* system_info_gatherer), each with its OutputKey.
InfoAgents == {"CPUInfoAgent", "MemoryInfoAgent", "DiskInfoAgent"}

CPUInfoOutputKey == "cpu_info_report"

MemoryInfoOutputKey == "memory_info_report"

DiskInfoOutputKey_Cpu == "cpu_info_report"

DiskInfoOutputKey == "disk_info_report"

InfoOutputKey(a) ==
    CASE a = "CPUInfoAgent" -> CPUInfoOutputKey
      [] a = "MemoryInfoAgent" -> MemoryInfoOutputKey
      [] a = "DiskInfoAgent" -> DiskInfoOutputKey

\* The state keys agent a's instruction reads: the three instructions name
\* no {state...} placeholder.
InfoReads(a) == {}

SynthesizerOutputKey == "system_health_report"

ReportKeys == {CPUInfoOutputKey, MemoryInfoOutputKey, DiskInfoOutputKey}

MonKeys == ReportKeys \cup {SynthesizerOutputKey}

\* Texts an information agent or the synthesizer may answer with.
Reports == {"healthy", "under pressure", "critical"}

ParallelComplete_Any(done) == \E a \in InfoAgents : done[a] = "done"

\* The parallel agent returns when every one of its sub-agents has completed;
\* the sequential agent then runs its next sub-agent, the synthesizer.
ParallelComplete(done) == \A a \in InfoAgents : done[a] = "done"

\* The parallel agent starts sub-agent a.
InfoStart(a) ==
    /\ monPc[a] = "ready"
    /\ monPc' = [monPc EXCEPT ![a] = "running"]
    /\ UNCHANGED <<synthPc, monState, synthSaw>>
    /\ UNCHANGED <<vars, shopVars, memVars, cbVars, mcVars, tcVars, ccVars, ssVars>>

\* Sub-agent a completes: its answer is saved under its OutputKey.
InfoFinish(a) ==
    /\ monPc[a] = "running"
    /\ \E r \in Reports : monState' = SaveOutput(monState, InfoOutputKey(a), r)
    /\ monPc' = [monPc EXCEPT ![a] = "done"]
    /\ UNCHANGED <<synthPc, synthSaw>>
    /\ UNCHANGED <<vars, shopVars, memVars, cbVars, mcVars, tcVars, ccVars, ssVars>>

\* SystemReportSynthesizer starts: its instruction reads the three reports.
SynthStart ==
    /\ synthPc = "ready"
    /\ ParallelComplete(monPc)
    /\ synthPc' = "running"
    /\ synthSaw' = [k \in ReportKeys |-> monState[k]]
    /\ UNCHANGED <<monPc, monState>>
    /\ UNCHANGED <<vars, shopVars, memVars, cbVars, mcVars, tcVars, ccVars, ssVars>>

\* SystemReportSynthesizer completes: OutputKey system_health_report.
SynthFinish ==
    /\ synthPc = "running"
    /\ \E r \in Reports : monState' = SaveOutput(monState, SynthesizerOutputKey, r)
    /\ synthPc' = "done"
    /\ UNCHANGED <<monPc, synthSaw>>
    /\ UNCHANGED <<vars, shopVars, memVars, cbVars, mcVars, tcVars, ccVars, ssVars>>

MonInit ==
    /\ monPc = [a \in InfoAgents |-> "ready"]
    /\ synthPc = "ready"
    /\ monState = [k \in MonKeys |-> Unset]
    /\ synthSaw = [k \in ReportKeys |-> Unset]

MonNext ==
    \/ \E a \in InfoAgents : InfoStart(a)
    \/ \E a \in InfoAgents : InfoFinish(a)
    \/ SynthStart
    \/ SynthFinish

\* ------------------------------------------------- the customer service shop

\* Dynamic Go types of the list values kept in session state.
GoAnySlice == "[]interface{}"

GoMapSlice == "[]map[string]any"

\* A list value in session state: its dynamic Go type and its elements.
GoList(gotype, items) == [gotype |-> gotype, items |-> items]

\* The type assertion val.([]interface{}) followed by the loop over the
\* elements: a value of any other dynamic type yields no element.
AsAnySlice(val) == IF val.gotype = GoAnySlice THEN val.items ELSE <<>>

\* A value read back from the database has gone through JSON: every list
\* comes back as []interface{} with the same elements.
FromDatabase(val) == GoList(GoAnySlice, val.items)

COURSE_ID == "ai_marketing_platform"

\* "Check if user already owns the course" over the parsed list.
Found(courses) == \E i \in 1..Len(courses) : courses[i].id = COURSE_ID

\* The list without the refunded course.
RECURSIVE WithoutCourse(_)
WithoutCourse(courses) ==
    IF courses = <<>> THEN <<>>
    ELSE IF Head(courses).id = COURSE_ID
         THEN WithoutCourse(Tail(courses))
         ELSE <<Head(courses)>> \o WithoutCourse(Tail(courses))

HistoryEntry(action, t) == [action |-> action, course_id |-> COURSE_ID, timestamp |-> t]

\* purchaseCourse at time t on state st: the result status and the state left.
purchaseCourse(st, t) ==
    LET purchasedCourses == AsAnySlice(st.purchased_courses)
        interactionHistory == AsAnySlice(st.interaction_history)
    IN  IF Found(purchasedCourses)
        THEN [status |-> "error", state |-> st]
        ELSE [status |-> "success",
              state |-> [purchased_courses |->
                             GoList(GoMapSlice,
                                    Append(purchasedCourses,
                                           [id |-> COURSE_ID, purchase_date |-> t])),
                         interaction_history |->
                             GoList(GoMapSlice,
                                    Append(interactionHistory,
                                           HistoryEntry("purchase_course", t)))]]

\* refundCourse at time t on state st.
refundCourse(st, t) ==
    LET purchasedCourses == AsAnySlice(st.purchased_courses)
        interactionHistory == AsAnySlice(st.interaction_history)
    IN  IF ~Found(purchasedCourses)
        THEN [status |-> "error", state |-> st]
        ELSE [status |-> "success",
              state |-> [purchased_courses |->
                             GoList(GoMapSlice, WithoutCourse(purchasedCourses)),
                         interaction_history |->
                             GoList(GoMapSlice,
                                    Append(interactionHistory,
                                           HistoryEntry("refund_course", t)))]]

\* A user message arrives: the runner loads the session from the database.
ShopRun ==
    /\ shopPc = "idle"
    /\ shopPc' = "running"
    /\ shopState' = [k \in DOMAIN shopState |-> FromDatabase(shopState[k])]
    /\ UNCHANGED <<shopClock, shopCalls, shopLast>>
    /\ UNCHANGED <<vars, monVars, memVars, cbVars, mcVars, tcVars, ccVars, ssVars>>

\* The agent run ends; every state change was stored with its event.
ShopRunEnd ==
    /\ shopPc = "running"
    /\ shopPc' = "idle"
    /\ UNCHANGED <<shopState, shopClock, shopCalls, shopLast>>
    /\ UNCHANGED <<vars, monVars, memVars, cbVars, mcVars, tcVars, ccVars, ssVars>>

\* What a tool call records: the tool, its status, the state before and after.
CallRecord(name, r, st) ==
    [tool |-> name, status |-> r.status, before |-> st, after |-> r.state]

\* The running agent calls purchase_course, now or a tick later.
PurchaseCourse ==
    /\ shopPc = "running"
    /\ shopCalls < MaxShopCalls
    /\ \E t \in {shopClock, shopClock + 1} :
          /\ shopClock' = t
          /\ shopState' = purchaseCourse(shopState, t).state
          /\ shopLast' = CallRecord("purchase_course",
                                    purchaseCourse(shopState, t), shopState)
    /\ shopCalls' = shopCalls + 1
    /\ UNCHANGED shopPc
    /\ UNCHANGED <<vars, monVars, memVars, cbVars, mcVars, tcVars, ccVars, ssVars>>

\* The running agent calls refund_course, now or a tick later.
RefundCourse ==
    /\ shopPc = "running"
    /\ shopCalls < MaxShopCalls
    /\ \E t \in {shopClock, shopClock + 1} :
          /\ shopClock' = t
          /\ shopState' = refundCourse(shopState, t).state
          /\ shopLast' = CallRecord("refund_course",
                                    refundCourse(shopState, t), shopState)
    /\ shopCalls' = shopCalls + 1
    /\ UNCHANGED shopPc
    /\ UNCHANGED <<vars, monVars, memVars, cbVars, mcVars, tcVars, ccVars, ssVars>>

\* The session as Create stores it: initialState with two empty lists.
ShopInitialState ==
    [purchased_courses |-> GoList(GoAnySlice, <<>>),
     interaction_history |-> GoList(GoAnySlice, <<>>)]

ShopInit ==
    /\ shopPc = "idle"
    /\ shopState = ShopInitialState
    /\ shopClock = 0
    /\ shopCalls = 0
    /\ shopLast = [tool |-> "none", status |-> "none",
                   before |-> ShopInitialState, after |-> ShopInitialState]

ShopNext == ShopRun \/ ShopRunEnd \/ PurchaseCourse \/ RefundCourse

\* ------------------------------------------------------- the memory agent

GoStringSlice == "[]string"

ReminderTexts == {"buy milk", "call mom"}

Names == {"User", "Muchlis"}

\* Positions a caller may name, valid or not.
Indexes == 0..(MaxReminders + 1)

\* getRemindersList: the stored value asserted to []interface{}.
getRemindersList(st) == AsAnySlice(st.reminders)

\* The state of a session as the database holds it (JSON).
ToDatabase(st) == [user_name |-> st.user_name, reminders |-> st.reminders.items]

\* The state of a session as the runner reads it from the database.
LoadSession(row) ==
    [user_name |-> row.user_name, reminders |-> GoList(GoAnySlice, row.reminders)]

\* Create's initialState: user_name "User", no reminders.
MemInitialState == [user_name |-> "User", reminders |-> GoList(GoStringSlice, <<>>)]

HasSession_Never(sessions) == FALSE

\* len(listResp.Sessions) > 0
HasSession(sessions) == Len(sessions) > 0

\* reminders[:i-1] followed by reminders[i:]
RemoveAt(reminders, i) ==
    SubSeq(reminders, 1, i - 1) \o SubSeq(reminders, i + 1, Len(reminders))

ValidIndex(reminders, i) == i >= 1 /\ i <= Len(reminders)

\* What a reminder tool call records.
ToolRecord(name, text, index, st, new, ok, result, returned) ==
    [tool |-> name, text |-> text, index |-> index,
     before |-> st.reminders.items, after |-> new.reminders.items,
     ok |-> ok, result |-> result, count |-> Len(result),
     returned |-> returned]

NoCall == ToolRecord("none", "", 0, MemInitialState, MemInitialState, TRUE, <<>>, "")

\* The program starts: it lists the user's sessions, continues the first one
\* or creates one, and shows the state of the session it works on.
MemStart ==
    /\ memPc = "stopped"
    /\ memStarts < MaxStarts
    /\ memStarts' = memStarts + 1
    /\ memPc' = "idle"
    /\ IF HasSession(memDb)
       THEN /\ memSession' = 1
            /\ memDb' = memDb
       ELSE /\ memSession' = Len(memDb) + 1
            /\ memDb' = Append(memDb, ToDatabase(MemInitialState))
    /\ memState' = LoadSession(memDb'[memSession'])
    /\ memAtStart' = memDb'[memSession']
    /\ UNCHANGED <<memAtExit, memLast>>
    /\ UNCHANGED <<vars, monVars, shopVars, cbVars, mcVars, tcVars, ccVars, ssVars>>

\* The user types "exit" or "quit".
MemExit ==
    /\ memPc = "idle"
    /\ memPc' = "stopped"
    /\ memSession' = 0
    /\ memAtExit' = memDb[memSession]
    /\ UNCHANGED <<memDb, memState, memStarts, memAtStart, memLast>>
    /\ UNCHANGED <<vars, monVars, shopVars, cbVars, mcVars, tcVars, ccVars, ssVars>>

\* The user sends a message: r.Run loads the session from the database.
MemRun ==
    /\ memPc = "idle"
    /\ memPc' = "running"
    /\ memState' = LoadSession(memDb[memSession])
    /\ UNCHANGED <<memDb, memSession, memStarts, memAtStart, memAtExit, memLast>>
    /\ UNCHANGED <<vars, monVars, shopVars, cbVars, mcVars, tcVars, ccVars, ssVars>>

\* The agent run ends.
MemRunEnd ==
    /\ memPc = "running"
    /\ memPc' = "idle"
    /\ UNCHANGED <<memDb, memSession, memState, memStarts, memAtStart,
                   memAtExit, memLast>>
    /\ UNCHANGED <<vars, monVars, shopVars, cbVars, mcVars, tcVars, ccVars, ssVars>>

\* state.Set during a run: the agent's state changes and the change is
\* stored in the database with the tool's event.
MemSet(new) ==
    /\ memState' = new
    /\ memDb' = [memDb EXCEPT ![memSession] = ToDatabase(new)]

AddReminder ==
    /\ memPc = "running"
    /\ \E r \in ReminderTexts :
          LET reminders == Append(getRemindersList(memState), r)
              new == [memState EXCEPT !.reminders = GoList(GoStringSlice, reminders)]
          IN  /\ Len(reminders) <= MaxReminders
              /\ MemSet(new)
              /\ memLast' = ToolRecord("add_reminder", r, 0, memState, new, TRUE,
                                       <<>>, "")
    /\ UNCHANGED <<memPc, memSession, memStarts, memAtStart, memAtExit>>
    /\ UNCHANGED <<vars, monVars, shopVars, cbVars, mcVars, tcVars, ccVars, ssVars>>

ViewReminders ==
    /\ memPc = "running"
    /\ memLast' = ToolRecord("view_reminders", "", 0, memState, memState, TRUE,
                             getRemindersList(memState), "")
    /\ UNCHANGED <<memDb, memPc, memSession, memState, memStarts, memAtStart,
                   memAtExit>>
    /\ UNCHANGED <<vars, monVars, shopVars, cbVars, mcVars, tcVars, ccVars, ssVars>>

UpdateReminder ==
    /\ memPc = "running"
    /\ \E i \in Indexes, text \in ReminderTexts :
          LET reminders == getRemindersList(memState)
              new == [memState EXCEPT !.reminders =
                          GoList(GoStringSlice, [reminders EXCEPT ![i] = text])]
          IN  IF ValidIndex(reminders, i)
              THEN /\ MemSet(new)
                   /\ memLast' = ToolRecord("update_reminder", text, i, memState,
                                            new, TRUE, <<>>, reminders[i])
              ELSE /\ UNCHANGED <<memState, memDb>>
                   /\ memLast' = ToolRecord("update_reminder", text, i, memState,
                                            memState, FALSE, <<>>, "")
    /\ UNCHANGED <<memPc, memSession, memStarts, memAtStart, memAtExit>>
    /\ UNCHANGED <<vars, monVars, shopVars, cbVars, mcVars, tcVars, ccVars, ssVars>>

DeleteReminder ==
    /\ memPc = "running"
    /\ \E i \in Indexes :
          LET reminders == getRemindersList(memState)
              new == [memState EXCEPT !.reminders =
                          GoList(GoStringSlice, RemoveAt(reminders, i))]
          IN  IF ValidIndex(reminders, i)
              THEN /\ MemSet(new)
                   /\ memLast' = ToolRecord("delete_reminder", "", i, memState,
                                            new, TRUE, <<>>, reminders[i])
              ELSE /\ UNCHANGED <<memState, memDb>>
                   /\ memLast' = ToolRecord("delete_reminder", "", i, memState,
                                            memState, FALSE, <<>>, "")
    /\ UNCHANGED <<memPc, memSession, memStarts, memAtStart, memAtExit>>
    /\ UNCHANGED <<vars, monVars, shopVars, cbVars, mcVars, tcVars, ccVars, ssVars>>

UpdateUserName ==
    /\ memPc = "running"
    /\ \E n \in Names :
          LET new == [memState EXCEPT !.user_name = n]
          IN  /\ MemSet(new)
              /\ memLast' = ToolRecord("update_user_name", n, 0, memState, new,
                                       TRUE, <<>>, memState.user_name)
    /\ UNCHANGED <<memPc, memSession, memStarts, memAtStart, memAtExit>>
    /\ UNCHANGED <<vars, monVars, shopVars, cbVars, mcVars, tcVars, ccVars, ssVars>>

\* Before the program's first start the database holds no session.
MemInit ==
    /\ memDb = <<>>
    /\ memPc = "stopped"
    /\ memSession = 0
    /\ memState = MemInitialState
    /\ memStarts = 0
    /\ memAtStart = ToDatabase(MemInitialState)
    /\ memAtExit = ToDatabase(MemInitialState)
    /\ memLast = NoCall

MemNext ==
    \/ MemStart
    \/ MemExit
    \/ MemRun
    \/ MemRunEnd
    \/ AddReminder
    \/ ViewReminders
    \/ UpdateReminder
    \/ DeleteReminder
    \/ UpdateUserName

\* -------------------------------------------- the before/after callbacks

CbKeys == {"agent_name", "request_counter", "request_start_time"}

\* A value in session state with its dynamic Go type; Missing: key not set.
GoValue(gotype, val) == [gotype |-> gotype, val |-> val]

Missing == GoValue("none", 0)

NextCounter_Float64(v) == IF v.gotype = "float64" THEN v.val + 1 ELSE 1

\* var counter int64 = 1; if the stored value is an int64, counter = it + 1
NextCounter(v) == IF v.gotype = "int64" THEN v.val + 1 ELSE 1

\* var counter int64; if the stored value is an int64, counter = it
ReadCounter(v) == IF v.gotype = "int64" THEN v.val ELSE 0

\* duration = timestamp.Sub(startTime), if the stored value is a time.Time
Duration(v, now) == IF v.gotype = "time.Time" THEN now - v.val ELSE 0

\* beforeAgentCallback at time now on state st: the state it leaves.
beforeAgentCallback(st, now) ==
    [agent_name |-> IF st["agent_name"] = Missing
                    THEN GoValue("string", "SimpleChatBot")
                    ELSE st["agent_name"],
     request_counter |-> GoValue("int64", NextCounter(st["request_counter"])),
     request_start_time |-> GoValue("time.Time", now)]

\* A request arrives on the session: the before-agent callback runs.
BeforeAgent ==
    /\ cbPc = "idle"
    /\ cbRequests < MaxRequests
    /\ cbRequests' = cbRequests + 1
    /\ \E now \in {cbClock, cbClock + 1} :
          /\ cbClock' = now
          /\ cbState' = beforeAgentCallback(cbState, now)
    /\ cbLog' = [cbLog EXCEPT !.before = NextCounter(cbState["request_counter"])]
    /\ cbPc' = "agent"
    /\ UNCHANGED <<vars, monVars, shopVars, memVars, mcVars, tcVars, ccVars, ssVars>>

\* The agent answers the request; it writes no state.
AgentAnswer ==
    /\ cbPc = "agent"
    /\ cbPc' = "after"
    /\ \E now \in {cbClock, cbClock + 1} : cbClock' = now
    /\ UNCHANGED <<cbState, cbRequests, cbLog>>
    /\ UNCHANGED <<vars, monVars, shopVars, memVars, mcVars, tcVars, ccVars, ssVars>>

\* The after-agent callback runs: it reads the start time and the counter
\* and prints them.
AfterAgent ==
    /\ cbPc = "after"
    /\ cbPc' = "idle"
    /\ cbLog' = [cbLog EXCEPT
                    !.after = ReadCounter(cbState["request_counter"]),
                    !.duration = Duration(cbState["request_start_time"], cbClock),
                    !.seen = cbState]
    /\ UNCHANGED <<cbState, cbClock, cbRequests>>
    /\ UNCHANGED <<vars, monVars, shopVars, memVars, mcVars, tcVars, ccVars, ssVars>>

\* A new session of the launcher's session service: no key is set.
CbInit ==
    /\ cbPc = "idle"
    /\ cbState = [k \in CbKeys |-> Missing]
    /\ cbClock = 0
    /\ cbRequests = 0
    /\ cbLog = [before |-> 0, after |-> 0, duration |-> 0,
                seen |-> [k \in CbKeys |-> Missing]]

CbNext == BeforeAgent \/ AgentAnswer \/ AfterAgent

\* ------------------------------------------------------------------ strings

\* A string is the sequence of its characters (ASCII).
LowerChars == <<"a", "b", "c", "d", "e", "f", "g", "h", "i", "j", "k", "l", "m", "n", "o", "p", "q", "r", "s", "t", "u", "v", "w", "x", "y", "z">>

UpperChars == <<"A", "B", "C", "D", "E", "F", "G", "H", "I", "J", "K", "L", "M", "N", "O", "P", "Q", "R", "S", "T", "U", "V", "W", "X", "Y", "Z">>

ToLowerChar(c) ==
    IF \E i \in 1..Len(UpperChars) : UpperChars[i] = c
    THEN LowerChars[CHOOSE i \in 1..Len(UpperChars) : UpperChars[i] = c]
    ELSE c

ToUpperChar(c) ==
    IF \E i \in 1..Len(LowerChars) : LowerChars[i] = c
    THEN UpperChars[CHOOSE i \in 1..Len(LowerChars) : LowerChars[i] = c]
    ELSE c

\* strings.ToLower, strings.ToUpper
ToLower(text) == [i \in 1..Len(text) |-> ToLowerChar(text[i])]

ToUpper(text) == [i \in 1..Len(text) |-> ToUpperChar(text[i])]

\* strings.Contains
Contains(text, word) ==
    \E i \in 1..(Len(text) - Len(word) + 1) :
        SubSeq(text, i, i + Len(word) - 1) = word

\* A part's text concatenated over the parts.
RECURSIVE JoinParts(_)
JoinParts(parts) ==
    IF parts = <<>> THEN <<>> ELSE Head(parts) \o JoinParts(Tail(parts))

\* ------------------------------------------------------- the model callbacks

PROHIBITED == <<"s", "u", "c", "k">>

CannedResponse ==
    <<"I", " ", "c", "a", "n", "n", "o", "t", " ", "r", "e", "s", "p", "o", "n", "d", " ", "t", "o", " ", "m", "e", "s", "s", "a", "g", "e", "s", " ", "c", "o", "n", "t", "a", "i", "n", "i", "n", "g", " ", "i", "n", "a", "p", "p", "r", "o", "p", "r", "i", "a", "t", "e", " ", "l", "a", "n", "g", "u", "a", "g", "e", ".">>

\* Texts of the parts of a request's messages.
UserTexts == {<<"I", "t", " ", "S", "U", "C", "K", "S">>, <<"h", "e", "l", "l", "o">>}

\* A message of a request: its role and the texts of its parts.
Messages ==
    [role : {"user", "model"},
     parts : UNION {[1..n -> UserTexts] : n \in 1..MaxParts}]

\* llmRequest.Contents: the newest message, alone or after one earlier
\* message of the conversation.
Requests == {<<m>> : m \in Messages} \cup {<<h, m>> : h, m \in Messages}

Stored(v) == [set |-> TRUE, val |-> v]

NotStored(zero) == [set |-> FALSE, val |-> zero]

\* The loop from the newest message back: Parts[0].Text of the newest message
\* that has role "user" and at least one part; "" if there is none.
RECURSIVE LastUserMessage(_)
LastUserMessage(contents) ==
    IF contents = <<>> THEN <<>>
    ELSE LET content == contents[Len(contents)]
         IN  IF content.role = "user" /\ Len(content.parts) > 0
             THEN content.parts[1]
             ELSE LastUserMessage(SubSeq(contents, 1, Len(contents) - 1))

\* lastUserMessage != "" && strings.Contains(strings.ToLower(...), "suck")
IsInappropriate(message) ==
    message # <<>> /\ Contains(ToLower(message), PROHIBITED)

\* beforeModelCallback at time now: the state it leaves, the keys it wrote
\* and whether it returned the canned response.
beforeModelCallback(st, contents, now) ==
    LET lastUserMessage == LastUserMessage(contents)
        st1 == IF lastUserMessage # <<>>
               THEN [st EXCEPT !.last_user_message = Stored(lastUserMessage)]
               ELSE st
        wrote1 == IF lastUserMessage # <<>> THEN {"last_user_message"} ELSE {}
    IN  IF IsInappropriate(lastUserMessage)
        THEN [blocked |-> TRUE, state |-> st1, wrote |-> wrote1]
        ELSE [blocked |-> FALSE,
              state |-> [st1 EXCEPT !.model_start_time = Stored(now)],
              wrote |-> wrote1 \cup {"model_start_time"}]

\* The replacement table of afterModelCallback.
Replacements ==
    {[original |-> <<"p", "r", "o", "b", "l", "e", "m">>, replacement |-> <<"c", "h", "a", "l", "l", "e", "n", "g", "e">>],
     [original |-> <<"d", "i", "f", "f", "i", "c", "u", "l", "t">>, replacement |-> <<"c", "o", "m", "p", "l", "e", "x">>],
     [original |-> <<"h", "a", "r", "d">>, replacement |-> <<"c", "h", "a", "l", "l", "e", "n", "g", "i", "n", "g">>],
     [original |-> <<"b", "a", "d">>, replacement |-> <<"s", "u", "b", "o", "p", "t", "i", "m", "a", "l">>],
     [original |-> <<"t", "e", "r", "r", "i", "b", "l", "e">>, replacement |-> <<"p", "r", "o", "b", "l", "e", "m", "a", "t", "i", "c">>],
     [original |-> <<"a", "w", "f", "u", "l">>, replacement |-> <<"s", "u", "b", "o", "p", "t", "i", "m", "a", "l">>],
     [original |-> <<"h", "a", "t", "e">>, replacement |-> <<"d", "i", "s", "l", "i", "k", "e">>]}

\* The table in the order the source writes it.
SourceOrder ==
    <<<<"p", "r", "o", "b", "l", "e", "m">>, <<"d", "i", "f", "f", "i", "c", "u", "l", "t">>, <<"h", "a", "r", "d">>,
      <<"b", "a", "d">>, <<"t", "e", "r", "r", "i", "b", "l", "e">>, <<"a", "w", "f", "u", "l">>,
      <<"h", "a", "t", "e">>>>

ReplacementOf(original) ==
    (CHOOSE e \in Replacements : e.original = original).replacement

\* replaceCaseInsensitive's choice for one match: the replacement in the
\* case of the matched segment.
InCaseOf(segment, new) ==
    IF segment = ToUpper(segment) THEN ToUpper(new)
    ELSE IF segment = ToLower(segment) THEN ToLower(new)
    ELSE new

\* replaceCaseInsensitive(text, old, new), scanning from position i.
RECURSIVE ReplaceFrom(_, _, _, _)
ReplaceFrom(text, old, new, i) ==
    IF i > Len(text) THEN <<>>
    ELSE IF i + Len(old) - 1 <= Len(text)
            /\ ToLower(SubSeq(text, i, i + Len(old) - 1)) = ToLower(old)
         THEN InCaseOf(SubSeq(text, i, i + Len(old) - 1), new)
                  \o ReplaceFrom(text, old, new, i + Len(old))
         ELSE <<text[i]>> \o ReplaceFrom(text, old, new, i + 1)

replaceCaseInsensitive(text, old, new) == ReplaceFrom(text, old, new, 1)

\* One pass of the range loop for the entry e.
ReplaceEntry(text, e) ==
    IF Contains(ToLower(text), e.original)
    THEN replaceCaseInsensitive(text, e.original, e.replacement)
    ELSE text

\* Texts of the parts of a model response.
ModelTexts == {<<"b", "a", "d">>, <<"T", "e", "r", "r", "i", "b", "l", "e">>, <<"H", "A", "T", "E">>, <<"f", "i", "n", "e">>}

\* A model response: whether the call failed, and the texts of its parts.
Responses ==
    [error : BOOLEAN,
     parts : UNION {[1..n -> ModelTexts] : n \in 0..MaxParts}]

NoResponse == [error |-> FALSE, parts |-> <<>>]

\* A request reaches the agent's model step: beforeModelCallback runs.
BeforeModel ==
    /\ mcPc \in {"idle", "done"}
    /\ mcRequests < MaxModelRequests
    /\ mcRequests' = mcRequests + 1
    /\ \E contents \in Requests :
          LET r == beforeModelCallback(mcState, contents, mcRequests + 1)
          IN  /\ mcState' = r.state
              /\ mcLast' = [contents |-> contents, blocked |-> r.blocked,
                            wrote |-> r.wrote, calls |-> mcModelCalls]
              /\ mcPc' = IF r.blocked THEN "done" ELSE "model"
              /\ mcDelivered' = IF r.blocked THEN <<CannedResponse>> ELSE <<>>
    /\ mcResponse' = NoResponse
    /\ mcRemaining' = {}
    /\ mcText' = <<>>
    /\ mcModified' = FALSE
    /\ UNCHANGED mcModelCalls
    /\ UNCHANGED <<vars, monVars, shopVars, memVars, cbVars, tcVars, ccVars, ssVars>>

\* The model is called and answers; afterModelCallback starts on the answer
\* and returns nil at once for an error or a response without text.
ModelAnswers ==
    /\ mcPc = "model"
    /\ mcModelCalls' = mcModelCalls + 1
    /\ \E response \in Responses :
          /\ mcResponse' = response
          /\ IF response.error \/ response.parts = <<>>
                \/ JoinParts(response.parts) = <<>>
             THEN /\ mcPc' = "done"
                  /\ mcDelivered' = response.parts
                  /\ mcText' = <<>>
                  /\ mcRemaining' = {}
             ELSE /\ mcPc' = "after"
                  /\ mcDelivered' = <<>>
                  /\ mcText' = JoinParts(response.parts)
                  /\ mcRemaining' = Replacements
    /\ mcModified' = FALSE
    /\ mcLast' = [mcLast EXCEPT !.contents = <<>>]
    /\ UNCHANGED <<mcState, mcRequests>>
    /\ UNCHANGED <<vars, monVars, shopVars, memVars, cbVars, tcVars, ccVars, ssVars>>

\* One iteration of "for original, replacement := range replacements": a Go
\* map is visited in an order the runtime chooses.
ReplaceStep ==
    /\ mcPc = "after"
    /\ mcRemaining # {}
    /\ \E e \in mcRemaining :
          /\ mcRemaining' = mcRemaining \ {e}
          /\ mcText' = ReplaceEntry(mcText, e)
          /\ mcModified' = (mcModified \/ Contains(ToLower(mcText), e.original))
    /\ UNCHANGED <<mcPc, mcState, mcRequests, mcLast, mcModelCalls, mcResponse,
                   mcDelivered>>
    /\ UNCHANGED <<vars, monVars, shopVars, memVars, cbVars, tcVars, ccVars, ssVars>>

\* The loop is over: the callback returns the response with every part's
\* text set to modifiedText, or nil (the original response) if nothing changed.
AfterModelReturn ==
    /\ mcPc = "after"
    /\ mcRemaining = {}
    /\ mcPc' = "done"
    /\ mcDelivered' = IF mcModified
                      THEN [i \in 1..Len(mcResponse.parts) |-> mcText]
                      ELSE mcResponse.parts
    /\ UNCHANGED <<mcState, mcRequests, mcLast, mcModelCalls, mcResponse,
                   mcRemaining, mcText, mcModified>>
    /\ UNCHANGED <<vars, monVars, shopVars, memVars, cbVars, tcVars, ccVars, ssVars>>

McInit ==
    /\ mcPc = "idle"
    /\ mcState = [last_user_message |-> NotStored(<<>>),
                  model_start_time |-> NotStored(0)]
    /\ mcRequests = 0
    /\ mcLast = [contents |-> <<>>, blocked |-> FALSE, wrote |-> {}, calls |-> 0]
    /\ mcModelCalls = 0
    /\ mcResponse = NoResponse
    /\ mcRemaining = {}
    /\ mcText = <<>>
    /\ mcModified = FALSE
    /\ mcDelivered = <<>>

McNext == BeforeModel \/ ModelAnswers \/ ReplaceStep \/ AfterModelReturn

\* -------------------------------------------------------- the tool callbacks

MERICA == <<"m", "e", "r", "i", "c", "a">>

RESTRICTED == <<"r", "e", "s", "t", "r", "i", "c", "t", "e", "d">>

UNITED_STATES == <<"U", "n", "i", "t", "e", "d", " ", "S", "t", "a", "t", "e", "s">>

RestrictedMessage == <<"A", "c", "c", "e", "s", "s", " ", "t", "o", " ", "t", "h", "i", "s", " ", "i", "n", "f", "o", "r", "m", "a", "t", "i", "o", "n", " ", "h", "a", "s", " ", "b", "e", "e", "n", " ", "r", "e", "s", "t", "r", "i", "c", "t", "e", "d", ".">>

WASHINGTON == <<"w", "a", "s", "h", "i", "n", "g", "t", "o", "n">>

UsaNote == <<" ", "(", "N", "o", "t", "e", ":", " ", "T", "h", "i", "s", " ", "i", "s", " ", "t", "h", "e", " ", "c", "a", "p", "i", "t", "a", "l", " ", "o", "f", " ", "t", "h", "e", " ", "U", "S", "A", ".", ")">>

NotFoundPrefix == <<"C", "a", "p", "i", "t", "a", "l", " ", "n", "o", "t", " ", "f", "o", "u", "n", "d", " ", "f", "o", "r", " ">>

\* getCapitalCity's table, as pairs.
countryCapitals ==
    {<<<<"u", "n", "i", "t", "e", "d", " ", "s", "t", "a", "t", "e", "s">>, <<"W", "a", "s", "h", "i", "n", "g", "t", "o", "n", ",", " ", "D", ".", "C", ".">>>>,
     <<<<"u", "s", "a">>, <<"W", "a", "s", "h", "i", "n", "g", "t", "o", "n", ",", " ", "D", ".", "C", ".">>>>,
     <<<<"c", "a", "n", "a", "d", "a">>, <<"O", "t", "t", "a", "w", "a">>>>,
     <<<<"f", "r", "a", "n", "c", "e">>, <<"P", "a", "r", "i", "s">>>>,
     <<<<"g", "e", "r", "m", "a", "n", "y">>, <<"B", "e", "r", "l", "i", "n">>>>,
     <<<<"j", "a", "p", "a", "n">>, <<"T", "o", "k", "y", "o">>>>,
     <<<<"b", "r", "a", "z", "i", "l">>, <<"B", "r", "a", "s", "í", "l", "i", "a">>>>,
     <<<<"a", "u", "s", "t", "r", "a", "l", "i", "a">>, <<"C", "a", "n", "b", "e", "r", "r", "a">>>>,
     <<<<"i", "n", "d", "i", "a">>, <<"N", "e", "w", " ", "D", "e", "l", "h", "i">>>>}

\* The first letter in upper case.
Title(word) == IF word = <<>> THEN <<>> ELSE <<ToUpperChar(Head(word))>> \o Tail(word)

\* Country names a caller may pass, each in lower, upper and title case.
CountryWords ==
    {p[1] : p \in countryCapitals}
        \cup {MERICA, RESTRICTED, <<"a", "t", "l", "a", "n", "t", "i", "s">>, <<"m", "e", "r", "i", "c", "a", "n">>}

Countries == UNION {{w, ToUpper(w), Title(w)} : w \in CountryWords}

\* args: the country argument, or none.
ToolArgs == {[has |-> TRUE, country |-> c] : c \in Countries}
                \cup {[has |-> FALSE, country |-> <<>>]}

\* getCapitalCity: the capital by the lower-cased name, or "not found".
getCapitalCity(country) ==
    IF \E p \in countryCapitals : p[1] = ToLower(country)
    THEN (CHOOSE p \in countryCapitals : p[1] = ToLower(country))[2]
    ELSE NotFoundPrefix \o country

IsMerica(country) == ToLower(country) = MERICA

IsRestricted_Exact(country) == country = RESTRICTED

IsRestricted(country) == ToLower(country) = RESTRICTED

\* A response map with the one key "result".
ResultMap(text) == [k \in {"result"} |-> text]

\* beforeToolCallback on args: the args it leaves and the response it
\* returns (skip: a response was returned and the tool is not run).
beforeToolCallback(args) ==
    LET country == IF args.has THEN args.country ELSE <<>>
    IN  IF IsMerica(country)
        THEN [skip |-> FALSE, args |-> [has |-> TRUE, country |-> UNITED_STATES],
              response |-> ResultMap(<<>>)]
        ELSE IF IsRestricted(country)
             THEN [skip |-> TRUE, args |-> args,
                   response |-> ResultMap(RestrictedMessage)]
             ELSE [skip |-> FALSE, args |-> args, response |-> ResultMap(<<>>)]

\* afterToolCallback on a response map: the map delivered.
afterToolCallback(result) ==
    LET originalResult == result["result"]
    IN  IF Contains(ToLower(originalResult), WASHINGTON)
        THEN [k \in {"result", "Result"} |-> originalResult \o UsaNote]
        ELSE result

NotExecuted == [ran |-> FALSE, country |-> <<>>]

\* The model calls get_capital_city: beforeToolCallback runs on the args.
BeforeTool ==
    /\ tcPc \in {"idle", "done"}
    /\ \E args \in ToolArgs :
          /\ tcCall' = args
          /\ tcArgs' = beforeToolCallback(args).args
          /\ tcResult' = beforeToolCallback(args).response
          /\ tcPc' = IF beforeToolCallback(args).skip THEN "after" ELSE "tool"
    /\ tcExecuted' = NotExecuted
    /\ UNCHANGED <<vars, monVars, shopVars, memVars, cbVars, mcVars, ccVars, ssVars>>

\* The tool function runs on the arguments the callback left.
ExecuteTool ==
    /\ tcPc = "tool"
    /\ tcPc' = "after"
    /\ tcExecuted' = [ran |-> TRUE,
                      country |-> IF tcArgs.has THEN tcArgs.country ELSE <<>>]
    /\ tcResult' = ResultMap(getCapitalCity(IF tcArgs.has THEN tcArgs.country ELSE <<>>))
    /\ UNCHANGED <<tcCall, tcArgs>>
    /\ UNCHANGED <<vars, monVars, shopVars, memVars, cbVars, mcVars, ccVars, ssVars>>

\* afterToolCallback runs on the response.
AfterTool ==
    /\ tcPc = "after"
    /\ tcPc' = "done"
    /\ tcResult' = afterToolCallback(tcResult)
    /\ UNCHANGED <<tcCall, tcArgs, tcExecuted>>
    /\ UNCHANGED <<vars, monVars, shopVars, memVars, cbVars, mcVars, ccVars, ssVars>>

TcInit ==
    /\ tcPc = "idle"
    /\ tcCall = [has |-> FALSE, country |-> <<>>]
    /\ tcArgs = [has |-> FALSE, country |-> <<>>]
    /\ tcExecuted = NotExecuted
    /\ tcResult = ResultMap(<<>>)

TcNext == BeforeTool \/ ExecuteTool \/ AfterTool

\* --------------------------------------------- count_characters on its own

NoCount == [called |-> FALSE, n |-> 0, result |-> CharacterCounter(0),
            message |-> CharacterCounterMessage(0),
            after |-> [k \in Keys |-> Unset]]

\* The reviewer calls count_characters on a text of n characters.
CountCharactersCall ==
    /\ \E n \in Lengths :
          /\ ccState' = CountCharacters(ccState, n)
          /\ ccLast' = [called |-> TRUE, n |-> n, result |-> CharacterCounter(n),
                        message |-> CharacterCounterMessage(n),
                        after |-> CountCharacters(ccState, n)]
    /\ ccPrev' = ccLast
    /\ UNCHANGED <<vars, monVars, shopVars, memVars, cbVars, mcVars, tcVars, ssVars>>

\* An agent's answer is saved under its OutputKey; what was counted before
\* no longer describes the session.
AgentSavesOutput ==
    /\ \/ \E p \in Posts : ccState' = SaveOutput(ccState, RefinerOutputKey, p)
       \/ \E t \in ReviewTexts : ccState' = SaveOutput(ccState, ReviewerOutputKey, t)
    /\ ccState' # ccState
    /\ ccLast' = NoCount
    /\ ccPrev' = NoCount
    /\ UNCHANGED <<vars, monVars, shopVars, memVars, cbVars, mcVars, tcVars, ssVars>>

CcInit ==
    /\ ccState = [k \in Keys |-> Unset]
    /\ ccLast = NoCount
    /\ ccPrev = NoCount

CcNext == CountCharactersCall \/ AgentSavesOutput

\* ------------------------------------------- the session service's defaults

StateKeys == {"user_name", "purchased_courses", "interaction_history"}

\* A state map: the keys it holds and their values (a key it does not hold
\* reads as its zero value); isNil tells a nil map from an empty one.
StateMap(isNil, keys, name, courses, history) ==
    [isNil |-> isNil, keys |-> keys, user_name |-> name,
     purchased_courses |-> courses, interaction_history |-> history]

NilState == StateMap(TRUE, {}, "", GoList(GoAnySlice, <<>>), GoList(GoAnySlice, <<>>))

EmptyState == StateMap(FALSE, {}, "", GoList(GoAnySlice, <<>>), GoList(GoAnySlice, <<>>))

\* main's initialState.
InitialState ==
    StateMap(FALSE, StateKeys, "Muchlis",
             GoList(GoAnySlice, <<>>), GoList(GoAnySlice, <<>>))

\* States a create request may carry.
RequestStates ==
    {NilState, EmptyState,
     StateMap(FALSE, {"user_name"}, "Alice",
              GoList(GoAnySlice, <<>>), GoList(GoAnySlice, <<>>)),
     StateMap(FALSE, StateKeys, "Bob",
              GoList(GoAnySlice, <<[id |-> COURSE_ID, purchase_date |-> 0]>>),
              GoList(GoAnySlice, <<HistoryEntry("purchase_course", 0)>>))}

WithDefaults_NilOnly(reqState, initialState) ==
    IF reqState.isNil THEN initialState ELSE reqState

\* if req.State == nil || len(req.State) == 0 { req.State = s.initialState }
WithDefaults(reqState, initialState) ==
    IF reqState.isNil \/ Cardinality(reqState.keys) = 0
    THEN initialState
    ELSE reqState

\* The state the database keeps for a session: the map's content, as JSON.
StoreState(st) ==
    [st EXCEPT !.isNil = FALSE,
               !.purchased_courses = FromDatabase(st.purchased_courses),
               !.interaction_history = FromDatabase(st.interaction_history)]

\* The two lists of a session state, as the course tools take them.
Lists(st) ==
    [purchased_courses |-> st.purchased_courses,
     interaction_history |-> st.interaction_history]

\* A session state with the lists a tool call left, stored again.
WithLists(st, lists) ==
    StoreState([st EXCEPT !.keys = st.keys \cup {"purchased_courses",
                                                  "interaction_history"},
                          !.purchased_courses = lists.purchased_courses,
                          !.interaction_history = lists.interaction_history])

\* sessionServiceWithDefaults.Create: the request is forwarded to the
\* database service, which stores a new session.
CreateSession ==
    /\ Len(ssSessions) < MaxSessions
    /\ \E reqState \in RequestStates :
          /\ ssLastCreate' = [created |-> TRUE, request |-> reqState,
                              forwarded |-> WithDefaults(reqState, ssInitialState)]
          /\ ssSessions' = Append(ssSessions,
                                  StoreState(WithDefaults(reqState, ssInitialState)))
    /\ UNCHANGED ssInitialState
    /\ UNCHANGED <<vars, monVars, shopVars, memVars, cbVars, mcVars, tcVars, ccVars>>

\* An agent run on session i buys the course; the session's state in the
\* database changes.
SessionPurchase ==
    /\ \E i \in 1..Len(ssSessions) :
          LET r == purchaseCourse(Lists(ssSessions[i]),
                                  Len(ssSessions[i].interaction_history.items))
          IN  /\ r.status = "success"
              /\ ssSessions' = [ssSessions EXCEPT ![i] = WithLists(@, r.state)]
    /\ UNCHANGED <<ssInitialState, ssLastCreate>>
    /\ UNCHANGED <<vars, monVars, shopVars, memVars, cbVars, mcVars, tcVars, ccVars>>

\* An agent run on session i refunds the course.
SessionRefund ==
    /\ \E i \in 1..Len(ssSessions) :
          LET r == refundCourse(Lists(ssSessions[i]),
                                Len(ssSessions[i].interaction_history.items))
          IN  /\ r.status = "success"
              /\ Len(ssSessions[i].interaction_history.items) < MaxShopCalls
              /\ ssSessions' = [ssSessions EXCEPT ![i] = WithLists(@, r.state)]
    /\ UNCHANGED <<ssInitialState, ssLastCreate>>
    /\ UNCHANGED <<vars, monVars, shopVars, memVars, cbVars, mcVars, tcVars, ccVars>>

SsInit ==
    /\ ssInitialState = InitialState
    /\ ssSessions = <<>>
    /\ ssLastCreate = [created |-> FALSE, request |-> NilState,
                       forwarded |-> InitialState]

SsNext == CreateSession \/ SessionPurchase \/ SessionRefund

\* ------------------------------------------------------------ specifications

\* Every program before its first step.
OutsideLoopInit == MonInit /\ ShopInit /\ MemInit /\ CbInit /\ McInit /\ TcInit /\ CcInit /\ SsInit

\* The program: the loop as main.go configures it.
Init == InitRun /\ maxIterations = MAX_ITERATIONS /\ OutsideLoopInit

\* The loop agent under any positive bound.
InitN == InitRun /\ maxIterations \in 1..MaxN /\ OutsideLoopInit

Next == Generate \/ Review \/ Refine

Spec == Init /\ [][Next]_vars

SpecN == InitN /\ [][Next]_vars

\* The system monitor workflow.
SpecMonitor == Init /\ [][MonNext]_monVars

\* The customer service system: agent runs and their tool calls.
SpecShop == Init /\ [][ShopNext]_shopVars

\* The memory agent: program starts, agent runs and their tool calls.
SpecMemory == Init /\ [][MemNext]_memVars

\* The agent with before and after callbacks, request after request.
SpecCallbacks == Init /\ [][CbNext]_cbVars

\* The content filter agent: model requests through both model callbacks.
SpecModelCallbacks == Init /\ [][McNext]_mcVars

\* The tool callback agent: get_capital_city calls through both callbacks.
SpecToolCallbacks == Init /\ [][TcNext]_tcVars

\* count_characters called again and again between the agents' answers.
SpecCounter == Init /\ [][CcNext]_ccVars

\* The customer service's sessions: creation with defaults and later changes.
SpecSessions == Init /\ [][SsNext]_ssVars

\* Each agent call returns and the loop goes on to its next step.
FairSpecN == InitN /\ [][Next]_vars /\ WF_vars(Next)

\* ------------------------------------------------------------------ shorthands

Done == pc = "done"

LastVerdict == verdicts[Len(verdicts)]

AllFail == \A i \in 1..Len(verdicts) : verdicts[i] = "Fail"

\* The final artifact the pipeline leaves in the session state.
FinalPost == state["current_post"]

\* ---------------------------------------------------------------------- C1

\* C1: in every reachable state of the refinement loop the iteration count is
\* at least 0 and never exceeds the configured maximum iterations; neither
\* sub-agent runs more often than that.
C1_IterationWithinBound ==
    /\ iteration >= 0
    /\ iteration <= maxIterations
    /\ evalCalls <= maxIterations
    /\ refineCalls <= maxIterations

\* The count reaches the maximum.
C1_Witness == iteration = maxIterations /\ refineCalls = MAX_ITERATIONS

\* ---------------------------------------------------------------------- C2

\* C2: for every bound N >= 1 and whatever the reviewer and the refiner
\* answer, the loop eventually returns, and it has then performed at most N
\* refinement cycles.
C2_TerminatesWithinBound ==
    /\ <>Done
    /\ [](Done => iteration <= maxIterations /\ refineCalls <= maxIterations)

\* A run that used all N cycles of a bound N > 1.
C2_Witness == Done /\ maxIterations > 1 /\ refineCalls = maxIterations

\* ---------------------------------------------------------------------- C3

\* The loop has been told to stop: the reviewer escalated or the bound is hit.
TerminationSignalled == escalate \/ LoopBoundReached(iteration, maxIterations)

\* No agent runs and nothing the run returns changes.
NothingAfterDone ==
    /\ reason' = reason
    /\ evalCalls' = evalCalls
    /\ refineCalls' = refineCalls
    /\ state' = state

\* C3: a run ends with exactly one termination reason out of QualityMet,
\* MaxIterationsReached, Aborted; once the loop is done no reviewer or refiner
\* run happens any more and the reason and the final post stay as they are.
C3_OneReasonThenNothing ==
    /\ [](TerminationSignalled <=> reason \in Reasons)
    /\ [](Done <=> reason \in Reasons)
    /\ [][(reason \in Reasons) => NothingAfterDone]_vars

\* A run that ended after several reviews.
C3_Witness == Done /\ reason = "QualityMet" /\ evalCalls > 1

\* ---------------------------------------------------------------------- C4

\* C4: a post whose most recent review failed is never the final output,
\* except when the reason is MaxIterationsReached: with any other reason the
\* final post is the one the last review passed.
C4_FailedPostNotFinal ==
    (Done /\ reason # "MaxIterationsReached") =>
        (LastVerdict = "Pass" /\ FinalPost = lastEvaluated)

\* A run that ended after a refinement with the reviewed post passing.
C4_Witness ==
    Done /\ reason = "QualityMet" /\ refineCalls > 0 /\ FinalPost # seed

\* ---------------------------------------------------------------------- C5

\* C5: when the reviewer calls exit_loop in the first iteration, the loop is
\* done with QualityMet after exactly one reviewer run and no refiner run, and
\* the final post is the seed of the initial generator.
C5_PassOnFirstCall ==
    (Len(verdicts) >= 1 /\ verdicts[1] = "Pass") =>
        /\ Done
        /\ reason = "QualityMet"
        /\ evalCalls = 1
        /\ refineCalls = 0
        /\ FinalPost = seed

C5_Witness == Done /\ verdicts = <<"Pass">> /\ FinalPost = seed

\* ---------------------------------------------------------------------- C6

\* C6 as stated: when every review fails, the loop ends with
\* MaxIterationsReached after exactly N reviewer runs and N-1 refiner runs.
C6_Original ==
    (Done /\ AllFail) =>
        /\ reason = "MaxIterationsReached"
        /\ evalCalls = maxIterations
        /\ refineCalls = maxIterations - 1

\* C6 amended: when every review fails, the loop ends with
\* MaxIterationsReached after exactly N reviewer runs and exactly N refiner
\* runs (the refiner runs in every iteration, the last one included), and it
\* does not end before.
C6_AlwaysFail ==
    AllFail =>
        /\ Done => /\ reason = "MaxIterationsReached"
                   /\ evalCalls = maxIterations
                   /\ refineCalls = maxIterations
        /\ ~Done => refineCalls < maxIterations
        /\ (refineCalls = maxIterations) => Done

\* The scenario maxIterations = 1 with a failing review.
C6_Witness ==
    Done /\ AllFail /\ maxIterations = 1 /\ evalCalls = 1 /\ refineCalls = 1

\* ---------------------------------------------------------------------- C7

\* C7: when the reviews 1..k-1 fail and review k passes (k <= N), the loop is
\* done with QualityMet after exactly k reviewer runs and k-1 refiner runs,
\* and the final post is the output of the (k-1)-th refiner run (the seed
\* when k = 1).
C7_PassOnCallK ==
    (Len(verdicts) >= 1 /\ LastVerdict = "Pass") =>
        LET k == Len(verdicts)
        IN  /\ k <= maxIterations
            /\ \A i \in 1..(k - 1) : verdicts[i] = "Fail"
            /\ Done
            /\ reason = "QualityMet"
            /\ evalCalls = k
            /\ refineCalls = k - 1
            /\ Len(refinerOutputs) = k - 1
            /\ FinalPost = IF k = 1 THEN seed ELSE refinerOutputs[k - 1]

\* N = 3, k = 3, the two refiner outputs differing.
C7_Witness ==
    /\ Done
    /\ maxIterations = 3
    /\ verdicts = <<"Fail", "Fail", "Pass">>
    /\ refineCalls = 2
    /\ refinerOutputs[1] # refinerOutputs[2]
    /\ FinalPost = refinerOutputs[2]

\* ---------------------------------------------------------------------- C8

\* C8: the refinement loop has a maximum of 10 iterations: when the reviewer
\* never calls exit_loop the loop stops after the 10th iteration, the reviewer
\* having run exactly 10 times, and never earlier.
C8_TenIterations ==
    (Done /\ reason = "MaxIterationsReached") =>
        (iteration = DOC_MAX_ITERATIONS /\ evalCalls = DOC_MAX_ITERATIONS)

\* ---------------------------------------------------------------------- C9

\* No sub-agent runs and no iteration starts or completes.
NothingAfterExitLoop ==
    /\ evalCalls' = evalCalls
    /\ refineCalls' = refineCalls
    /\ iteration' = iteration
    /\ pc' = pc

\* C9: the loop ends in exactly one of two ways: the reviewer called exit_loop
\* (Escalate = true) or the maximum number of iterations was reached.  It
\* never ends early without exit_loop, and once exit_loop has been called the
\* refiner does not run in that iteration and no later iteration starts.
C9_TwoWaysToEnd ==
    /\ [](Done =>
            /\ escalate \/ iteration = maxIterations
            /\ ~(escalate /\ iteration = maxIterations)
            /\ escalate <=> LastVerdict = "Pass")
    /\ [](~Done => ~escalate /\ iteration < maxIterations)
    /\ [][escalate => NothingAfterExitLoop]_vars

\* exit_loop called in a later iteration.
C9_Witness == Done /\ escalate /\ iteration > 0 /\ refineCalls = iteration

\* --------------------------------------------------------------------- C10

\* C10 as stated: when the loop ends with MaxIterationsReached the final post
\* is exactly the post given to the last reviewer run, and the feedback of
\* that last failing review is preserved.
C10_Original ==
    (Done /\ reason = "MaxIterationsReached") =>
        /\ FinalPost = lastEvaluated
        /\ state["review_feedback"] = lastFeedback

\* C10 amended: when the loop ends with MaxIterationsReached the final post
\* is the output of the refiner run that followed the last reviewer run (one
\* refinement happens after the last review and its output is not reviewed),
\* and the feedback of that last failing review is preserved in
\* review_feedback.
C10_MaxIterationsOutput ==
    (Done /\ reason = "MaxIterationsReached") =>
        /\ LastVerdict = "Fail"
        /\ refineCalls = evalCalls
        /\ Len(refinerOutputs) = evalCalls
        /\ FinalPost = refinerOutputs[evalCalls]
        /\ state["review_feedback"] = lastFeedback
        /\ lastFeedback \in ReviewTexts

\* The bound is hit with a final post that differs from the last reviewed one.
C10_Witness ==
    /\ Done
    /\ reason = "MaxIterationsReached"
    /\ FinalPost # lastEvaluated
    /\ state["review_feedback"] = "too short"

\* --------------------------------------------------------------------- C12

\* The post the k-th refiner run was given.
RefinerInput(k) == IF k = 1 THEN seed ELSE refinerOutputs[k - 1]

\* The k-th refiner run answered with the post it was given.
NoProgressAt(k) == refinerOutputs[k] = RefinerInput(k)

\* C12 as stated: when a refiner run returns the content it was given while
\* the feedback is non-empty, the loop ends with Aborted and no further
\* reviewer or refiner run is made.
C12_Original ==
    \A k \in 1..Len(refinerOutputs) :
        (NoProgressAt(k) /\ lastFeedback # Unset) =>
            /\ Done
            /\ reason = "Aborted"
            /\ refineCalls = k
            /\ evalCalls = k

\* C12 amended: a refiner run that returns the content it was given is
\* treated like any other: right after it the loop goes on to the next review, or ends with
\* MaxIterationsReached when that run completed the last iteration; the loop
\* never ends with Aborted.
C12_NoProgressGoesOn ==
    /\ reason # "Aborted"
    /\ \A k \in 1..Len(refinerOutputs) :
          (NoProgressAt(k) /\ refineCalls = k /\ evalCalls = k) =>
              /\ k < maxIterations => (pc = "review" /\ reason = "Running")
              /\ k = maxIterations => (Done /\ reason = "MaxIterationsReached")

\* The loop went on and reviewed again after a refiner run without progress.
C12_Witness ==
    /\ Len(refinerOutputs) >= 1
    /\ NoProgressAt(1)
    /\ lastFeedback \in ReviewTexts
    /\ evalCalls >= 2
    /\ refineCalls >= 2

\* --------------------------------------------------------------------- C13

\* A step that is a reviewer run / a refiner run.
ReviewerRuns == evalCalls' = evalCalls + 1

RefinerRuns == refineCalls' = refineCalls + 1

\* Runs alternate: a reviewer run starts when as many refiner runs as
\* reviewer runs have completed, a refiner run when one more reviewer run
\* than refiner runs has completed, and a step is never both.
AlternatingStep ==
    /\ ReviewerRuns => (evalCalls = refineCalls /\ refineCalls' = refineCalls)
    /\ RefinerRuns => (evalCalls = refineCalls + 1 /\ evalCalls' = evalCalls)

ReturnsLoopResult == state' = state /\ reason' = reason /\ genCalls' = genCalls

\* C14: in every pipeline run the initial generator runs exactly once, before
\* the first reviewer run, which reviews its output; it never runs again
\* during the loop, and the pipeline returns the loop's final post and
\* termination reason unchanged.
C14_GeneratorOnce ==
    /\ [](genCalls <= 1)
    /\ [](pc # "generate" <=> genCalls = 1)
    /\ [](evalCalls >= 1 => (genCalls = 1 /\ seed \in Posts))
    /\ []((evalCalls = 1) => lastEvaluated = seed)
    /\ [][Done => ReturnsLoopResult]_vars

\* The loop has run several iterations after the single generator run.
C14_Witness == Done /\ genCalls = 1 /\ evalCalls >= 2 /\ FinalPost # seed

\* --------------------------------------------------------------------- C15

\* C15: SystemReportSynthesizer starts only after all three parallel
\* sub-agents have completed, in every interleaving of the three; when it
\* starts, cpu_info_report, memory_info_report and disk_info_report have all
\* been written, and it reads them as the three agents left them.
C15_SynthesizerAfterAll ==
    (synthPc # "ready") =>
        /\ \A a \in InfoAgents : monPc[a] = "done"
        /\ \A k \in ReportKeys : monState[k] \in Reports
        /\ \A k \in ReportKeys : synthSaw[k] = monState[k]

\* The synthesizer runs with three reports that are not all the same.
C15_Witness ==
    /\ synthPc = "running"
    /\ synthSaw[CPUInfoOutputKey] # synthSaw[DiskInfoOutputKey]
    /\ synthSaw[MemoryInfoOutputKey] \in Reports

\* --------------------------------------------------------------------- C16

\* The user owns the course in state st: purchased_courses contains it.
Owns(st) == Found(st.purchased_courses.items)

SameLists(a, b) ==
    /\ a.purchased_courses.items = b.purchased_courses.items
    /\ a.interaction_history.items = b.interaction_history.items

\* C16: purchase_course called while purchased_courses already contains the
\* course returns status "error", refund_course called while it does not
\* contain the course returns status "error", and either call leaves
\* purchased_courses and interaction_history as they were.
C16_RejectsAndLeavesState ==
    /\ (shopLast.tool = "purchase_course" /\ Owns(shopLast.before)) =>
           (shopLast.status = "error" /\ SameLists(shopLast.before, shopLast.after))
    /\ (shopLast.tool = "refund_course" /\ ~Owns(shopLast.before)) =>
           (shopLast.status = "error" /\ SameLists(shopLast.before, shopLast.after))

\* --------------------------------------------------------------------- C17

\* C17: every successful purchase or refund appends exactly one entry to
\* interaction_history and keeps all earlier entries in their order.
C17_HistoryAppendOnly ==
    (shopLast.status = "success") =>
        LET before == shopLast.before.interaction_history.items
            after == shopLast.after.interaction_history.items
        IN  /\ Len(after) = Len(before) + 1
            /\ SubSeq(after, 1, Len(before)) = before
            /\ after[Len(after)].action = shopLast.tool

\* --------------------------------------------------------------------- C18

\* C18: after add_reminder(r) the stored reminders are the previously stored
\* reminders followed by r, whatever add, update and delete calls came before
\* (several calls within one agent run included), and view_reminders returns
\* the stored list with count equal to its length.
C18_AddAppendsViewReturns ==
    /\ (memLast.tool = "add_reminder") =>
           memLast.after = Append(memLast.before, memLast.text)
    /\ (memLast.tool = "view_reminders") =>
           (memLast.result = memLast.before /\ memLast.count = Len(memLast.before))

\* --------------------------------------------------------------------- C19

\* C19: across restarts the program creates a session only when List returns
\* none and otherwise continues the first listed one, so the user has at most
\* one session; user_name and reminders as stored when the program stopped
\* are the state it sees when it starts again.
C19_OneSessionContinued ==
    /\ Len(memDb) <= 1
    /\ (memPc # "stopped") =>
           (memSession = 1 /\ ToDatabase(memState) = memDb[memSession])
    /\ (memPc # "stopped" /\ memStarts = 1) => memAtStart = ToDatabase(MemInitialState)
    /\ (memPc # "stopped" /\ memStarts >= 2) => memAtStart = memAtExit

\* The program restarted on a session whose name and reminders were changed
\* in the run before.
C19_Witness ==
    /\ memStarts = 2
    /\ memPc = "idle"
    /\ memAtStart.user_name = "Muchlis"
    /\ Len(memAtStart.reminders) = 1

\* --------------------------------------------------------------------- C20

\* C20: after the n-th agent request on a session request_counter equals n
\* (from the before callback of that request on); the after-agent callback
\* reports the same value and changes no state key.
C20_CounterCountsRequests ==
    /\ (cbRequests >= 1) =>
           (cbState["request_counter"] = GoValue("int64", cbRequests)
            /\ cbLog.before = cbRequests)
    /\ (cbRequests >= 1 /\ cbPc = "idle") =>
           (cbLog.after = cbRequests /\ cbLog.seen = cbState)

\* The third request on the session has gone through both callbacks.
C20_Witness ==
    /\ cbRequests = 3
    /\ cbPc = "idle"
    /\ cbLog.after = 3
    /\ cbLog.duration > 0

\* --------------------------------------------------------------------- C21

\* The newest message of role "user" in the request, as the texts of all its
\* parts; no parts if the request has no user message.
RECURSIVE LastUserRoleParts(_)
LastUserRoleParts(contents) ==
    IF contents = <<>> THEN <<>>
    ELSE IF contents[Len(contents)].role = "user"
         THEN contents[Len(contents)].parts
         ELSE LastUserRoleParts(SubSeq(contents, 1, Len(contents) - 1))

MentionsProhibited(parts) ==
    \E i \in 1..Len(parts) : Contains(ToLower(parts[i]), PROHIBITED)

\* beforeModelCallback has just returned for the request in mcLast.
BeforeModelReturned == mcPc \in {"model", "done"} /\ mcLast.contents # <<>>

\* C21: whenever the last user-role message of the request contains "suck"
\* (in any letter case) beforeModelCallback returns the canned response, the
\* model call is skipped and model_start_time is not written; in every other
\* case it returns nil and the model is called.
C21_InappropriateNeverReachesModel ==
    BeforeModelReturned =>
        IF MentionsProhibited(LastUserRoleParts(mcLast.contents))
        THEN /\ mcLast.blocked
             /\ mcPc = "done"
             /\ mcDelivered = <<CannedResponse>>
             /\ mcModelCalls = mcLast.calls
             /\ "model_start_time" \notin mcLast.wrote
        ELSE /\ ~mcLast.blocked
             /\ mcPc = "model"

\* --------------------------------------------------------------------- C22

\* The table applied to a text entry after entry in the order given.
RECURSIVE ReplaceInOrder(_, _)
ReplaceInOrder(text, order) ==
    IF order = <<>> THEN text
    ELSE ReplaceInOrder(
             ReplaceEntry(text, [original |-> Head(order),
                                 replacement |-> ReplacementOf(Head(order))]),
             Tail(order))

\* afterModelCallback has finished on a non-error response with text.
AfterModelDone ==
    /\ mcPc = "done"
    /\ ~mcLast.blocked
    /\ ~mcResponse.error
    /\ JoinParts(mcResponse.parts) # <<>>

\* C22: for every non-error response with non-empty text, the text delivered
\* after afterModelCallback contains none of the words problem, difficult,
\* hard, bad, terrible, awful, hate in any letter case, and it is determined
\* by the original response alone: it is what the table gives in the order
\* the source lists it, whatever order the map was visited in.
C22_NegativeWordsReplaced ==
    AfterModelDone =>
        /\ \A e \in Replacements :
               ~Contains(ToLower(JoinParts(mcDelivered)), e.original)
        /\ mcText = ReplaceInOrder(JoinParts(mcResponse.parts), SourceOrder)

\* --------------------------------------------------------------------- C23

\* Two strings equal up to the case of their letters.
EqualFold(a, b) ==
    Len(a) = Len(b) /\ \A i \in 1..Len(a) : ToLowerChar(a[i]) = ToLowerChar(b[i])

\* C23: a get_capital_city call with country "restricted" in any letter case
\* never executes the tool function and gives {result: "Access to this
\* information has been restricted."}; with country "merica" in any letter
\* case the argument is rewritten to "United States" and the tool executes
\* with it; every other call keeps its arguments and executes the tool.
C23_BlocksOrRewrites ==
    LET country == IF tcCall.has THEN tcCall.country ELSE <<>>
    IN  /\ (tcPc # "idle" /\ EqualFold(country, RESTRICTED)) =>
               /\ ~tcExecuted.ran
               /\ tcPc \in {"after", "done"}
               /\ tcResult = ResultMap(RestrictedMessage)
        /\ (tcPc # "idle" /\ EqualFold(country, MERICA)) =>
               /\ tcArgs = [has |-> TRUE, country |-> UNITED_STATES]
               /\ tcPc \in {"after", "done"} =>
                      tcExecuted = [ran |-> TRUE, country |-> UNITED_STATES]
        /\ (tcPc # "idle" /\ ~EqualFold(country, RESTRICTED)
                /\ ~EqualFold(country, MERICA)) =>
               /\ tcArgs = tcCall
               /\ tcPc \in {"after", "done"} =>
                      tcExecuted = [ran |-> TRUE, country |-> country]

\* A call for "RESTRICTED" in upper case has been answered without the tool.
C23_Witness ==
    /\ tcPc = "done"
    /\ tcCall.has
    /\ tcCall.country = ToUpper(RESTRICTED)
    /\ ~tcExecuted.ran

\* --------------------------------------------------------------------- C24

\* Session state st and st2 agree on every key outside the set keys.
SameExcept(st, st2, keys) == \A k \in Keys \ keys : st2[k] = st[k]

\* What one step of the pipeline may write.
ArtifactFrame ==
    /\ (pc = "generate" \/ pc = "refine") =>
           SameExcept(state, state', {"current_post"})
    /\ (pc = "review") =>
           /\ state'["current_post"] = state["current_post"]
           /\ SameExcept(state, state', {"review_feedback", "review_status"})
    /\ \A n \in Lengths :
           SameExcept(state, CountCharacters(state, n), {"review_status"})

\* C24: current_post is set only by InitialPostGenerator and PostRefiner; a
\* PostReviewer turn, with its calls of count_characters and exit_loop,
\* leaves current_post unchanged: the reviewer writes only review_feedback,
\* count_characters only review_status, exit_loop only the Escalate flag.
C24_ArtifactWrittenByGeneratorAndRefiner == [][ArtifactFrame]_vars

\* A review that counted, passed and called exit_loop has left the
\* generator's post in place.
C24_Witness ==
    /\ Done
    /\ escalate
    /\ state["review_status"] = "pass"
    /\ state["review_feedback"] = ExitMessage
    /\ state["current_post"] = seed

\* --------------------------------------------------------------------- C25

\* Two count_characters calls in a row on a text of the same length.
CountedTwice == ccPrev.called /\ ccLast.called /\ ccPrev.n = ccLast.n

C27_IndexChecked ==
    LET i == memLast.index
        before == memLast.before
        after == memLast.after
    IN  /\ (memLast.tool \in {"update_reminder", "delete_reminder"}
              /\ (i < 1 \/ i > Len(before))) =>
               (~memLast.ok /\ after = before)
        /\ (memLast.tool = "delete_reminder" /\ i >= 1 /\ i <= Len(before)) =>
               /\ memLast.ok
               /\ Len(after) = Len(before) - 1
               /\ after = SubSeq(before, 1, i - 1) \o SubSeq(before, i + 1, Len(before))
               /\ memLast.returned = before[i]
        /\ (memLast.tool = "update_reminder" /\ i >= 1 /\ i <= Len(before)) =>
               /\ memLast.ok
               /\ Len(after) = Len(before)
               /\ \A j \in 1..Len(before) :
                      after[j] = IF j = i THEN memLast.text ELSE before[j]
               /\ memLast.returned = before[i]

\* --------------------------------------------------------------------- C28

\* A step changes an information agent's key only when that agent completes.
WritesOwnKeyOnly ==
    \A a \in InfoAgents :
        (monState'[InfoOutputKey(a)] # monState[InfoOutputKey(a)]) =>
            (monPc[a] = "running" /\ monPc'[a] = "done")

\* A completing information agent leaves every other key as it was.
LeavesOtherKeys ==
    \A a \in InfoAgents :
        (monPc[a] = "running" /\ monPc'[a] = "done") =>
            \A k \in MonKeys \ {InfoOutputKey(a)} : monState'[k] = monState[k]

\* C28: CPUInfoAgent, MemoryInfoAgent and DiskInfoAgent write pairwise
\* distinct state keys and none reads a key another one writes, so each
\* report the synthesizer is handed is the one its own agent wrote, in
\* whatever order the three ran.
C28_IndependentGatherers ==
    /\ [](\A a, b \in InfoAgents :
              a # b => /\ InfoOutputKey(a) # InfoOutputKey(b)
                       /\ InfoOutputKey(b) \notin InfoReads(a))
    /\ [][WritesOwnKeyOnly /\ LeavesOtherKeys]_monVars
    /\ []((synthPc # "ready") => \A k \in ReportKeys : synthSaw[k] \in Reports)

\* The synthesizer was handed three different reports.
C28_Witness ==
    /\ synthPc = "done"
    /\ synthSaw[CPUInfoOutputKey] = "healthy"
    /\ synthSaw[MemoryInfoOutputKey] = "under pressure"
    /\ synthSaw[DiskInfoOutputKey] = "critical"

\* --------------------------------------------------------------------- C29

RECURSIVE CourseEntries(_)
CourseEntries(courses) ==
    IF courses = <<>> THEN 0
    ELSE (IF Head(courses).id = COURSE_ID THEN 1 ELSE 0) + CourseEntries(Tail(courses))

\* C30: after any sequence of purchase_course and refund_course calls on a
\* session that started without courses, purchased_courses has at most one
\* entry with id "ai_marketing_platform"; purchase_course returns "success"
\* exactly when the course was not owned before the call and is owned after
\* it, and refund_course returns "success" exactly when the course was owned
\* before the call and is not owned after it, two calls within one agent run
\* included.
C30_OwnershipFollowsStatus ==
    /\ CourseEntries(shopState.purchased_courses.items) <= 1
    /\ (shopLast.tool = "purchase_course") =>
           ((shopLast.status = "success") <=>
                (~Owns(shopLast.before) /\ Owns(shopLast.after)))
    /\ (shopLast.tool = "refund_course") =>
           ((shopLast.status = "success") <=>
                (Owns(shopLast.before) /\ ~Owns(shopLast.after)))

====
